---- MODULE Spec2Model ----
(***************************************************************************)
(* Model of src/scraping_process/sku_search_sites.py: the asyncio engine   *)
(* that looks every SKU up on every allowed domain (_gather_all,           *)
(* _links_for_sku, _search_domain, _fetch) under one shared semaphore.     *)
(*                                                                         *)
(* One action is one run of a task between two suspension points of the    *)
(* event loop.  The asyncio primitives the code calls (Semaphore,          *)
(* as_completed, Task.cancel, tqdm's gather) are modelled by what CPython  *)
(* 3.11 and tqdm do.                                                       *)
(***************************************************************************)
EXTENDS Integers, Sequences, FiniteSets, TLC

----------------------------------------------------------------------------
(* Bounds of the model *)

MaxTasks == 3      \* at most this many lookup tasks: Len(skus) * Len(ALLOWED_DOMAINS)
MaxQuota == 2
MaxLines == 2      \* at most this many lines in skus.txt
MaxLinks == 3      \* at most this many lines in sku_links.txt
MaxRows == 3       \* at most this many lines in filtered_images.txt

(* Program constant, scaled down from 50 so that lookups queue for a permit *)
CONCURRENT_QUERIES == 2

Identifiers == {"ABC123", "XYZ999"}
AllDomains == <<"site-a.com", "site-b.com", "site-c.com", "site-d.com", "site-e.com">>

(* Python's None where a URL is expected, and where a task is expected *)
None == [domain |-> "None", sku |-> "None"]
NoTask == <<0, 0>>

VARIABLES
    skus,               \* the input list handed to _gather_all
    ALLOWED_DOMAINS,    \* the ordered allow-list
    MAX_LINKS_PER_SKU,  \* the quota
    pc,                 \* _gather_all: "gathering" | "done" | "crashed" | "interrupted";
                        \*   "off" when the engine is not the program run
    rstate,             \* per resolver: "new" | "running" | "done" | "raised" |
                        \*   "cancelled"
    tstate,             \* per lookup task: "none" | "created" | "waiting" |
                        \*   "granted" | "fetching" | "done" | "raised" |
                        \*   "cancelled"
    must_cancel,        \* per lookup task: cancel() requested, not yet delivered
    tlink,              \* per lookup task: the value _search_domain returned
    outcome,            \* per lookup task: "Found" | "NotFound" | "Failed" |
                        \*   "Raised" | "None" (no outcome yet)
    sem,                \* asyncio.Semaphore: [value, waiters]
    ready,              \* the event loop's queue of lookup tasks that were
                        \*   created and have not run yet, in creation order
    queue,              \* per resolver: tasks in the order they completed
    consumed,           \* per resolver: how many completions it has awaited
    found,              \* per resolver: the accepted links
    res,                \* gather: <<index, links>> in resolver completion order
    report,             \* the returned dict: [keys, vals], insertion ordered
    fetchCalls,         \* per (sku, domain): number of _fetch calls issued
    domain_bar,         \* _domain_bar: [n, total]
    flf_pc,             \* sku_search2.find_links_for: "off" | "loop" | "returned"
    flf_i,              \* find_links_for: index of the domain the loop is at
    collected,          \* find_links_for: the dict domain -> best link, as
                        \*   [domain, link] pairs in insertion order
    searched,           \* find_links_for: the domains driver.get was issued for
    h_pc,               \* main.solve_captcha_with_brightdata: "off" | "called" |
                        \*   "saved" | "ran" | "returned"
    session_state,      \* session_state.json: "absent" | "written"
    captcha_solution,   \* captcha_solution.json: "absent" | "earlier" (left by
                        \*   something before this call) | "main2" (this run's)
    page_source,        \* page_source.html: "absent" | "written"
    returncode,         \* of the main2.py subprocess; -1 before it has exited
    solved,             \* what solve_captcha_with_brightdata returned:
                        \*   "None" | "True" | "False"
    ss_pc,              \* sku_search.main: "off" | "start" | "loop" | "done"
    ss_skus,            \* sku_search.main: the list read from skus.txt
    ss_i,               \* sku_search.main: index of the SKU the loop is at
    ss_calls,           \* sku_search.main: per SKU handled, what links_for did
    out,                \* sku_links.txt: its lines, each [key, kind, link]
                        \*   with key the text before the first tab ("" without
                        \*   a tab), kind "link" | "NOT_FOUND" | "ERROR" | "TEXT"
    g_pc,               \* greedy_finder.main: "off" | "read" | "loop" | "report"
    g_lines,            \* greedy_finder.main: the lines of sku_links.txt read
                        \*   so far
    all_skus,           \* greedy_finder.main: every SKU of a well-formed line
    domain_to_skus,     \* greedy_finder.main: the dict domain -> set of SKUs,
                        \*   as [dom, skus] entries in insertion order
    covered,            \* greedy_finder.main: the SKUs of the selected domains
    selected,           \* greedy_finder.main: the selected domains, in order
    im_pc,              \* images_to_json: "off" | "start" | "built" | "rebuilt"
    im_rows,            \* images_to_json: the lines build_mapping has gone
                        \*   through
    mapping,            \* images_to_json: build_mapping's mapping, as [keys,
                        \*   vals] in insertion order, and its seen_per_sku
    remapped            \* images_to_json: build_mapping of the rows rebuilt
                        \*   from mapping

(* the sequential resolver of sku_search2.py *)
sequential == <<flf_pc, flf_i, collected, searched>>

(* the captcha hand-off between main.py and main2.py *)
handoff == <<h_pc, session_state, captcha_solution, page_source, returncode,
             solved>>

(* sku_search.py *)
sku_search == <<ss_pc, ss_skus, ss_i, ss_calls, out>>

(* file_handler/greedy_finder.py *)
greedy == <<g_pc, g_lines, all_skus, domain_to_skus, covered, selected>>

(* images_to_json.py *)
images == <<im_pc, im_rows, mapping, remapped>>

(* the scripts of the repository beside the two resolvers *)
scripts == <<handoff, sku_search, greedy, images>>

vars == <<skus, ALLOWED_DOMAINS, MAX_LINKS_PER_SKU, pc, rstate, tstate,
          must_cancel, tlink, outcome, sem, ready, queue, consumed, found,
          res, report, fetchCalls, domain_bar, flf_pc, flf_i, collected,
          searched, h_pc, session_state, captcha_solution, page_source,
          returncode, solved, ss_pc, ss_skus, ss_i, ss_calls, out, g_pc,
          g_lines, all_skus, domain_to_skus, covered, selected, im_pc,
          im_rows, mapping, remapped>>

(* what no step of the async engine changes *)
config == <<skus, ALLOWED_DOMAINS, MAX_LINKS_PER_SKU, sequential, scripts>>

(* every variable of the two resolvers *)
resolvers == <<skus, ALLOWED_DOMAINS, MAX_LINKS_PER_SKU, pc, rstate, tstate,
               must_cancel, tlink, outcome, sem, ready, queue, consumed, found,
               res, report, fetchCalls, domain_bar, sequential>>

(* no captcha was met: solve_captcha_with_brightdata is not called; the    *)
(* working directory is as test_integration.cleanup_test_files leaves it   *)
handoff_off ==
    /\ h_pc = "off"
    /\ session_state = "absent" /\ captcha_solution = "absent"
    /\ page_source = "absent"
    /\ returncode = -1 /\ solved = "None"

(* sku_search.py is not run *)
sku_search_off ==
    /\ ss_pc = "off" /\ ss_skus = <<>> /\ ss_i = 0 /\ ss_calls = <<>>
    /\ out = <<>>

(* greedy_finder.py is not run *)
greedy_off ==
    /\ g_pc = "off" /\ g_lines = <<>> /\ all_skus = {}
    /\ domain_to_skus = <<>> /\ covered = {} /\ selected = <<>>

(* images_to_json.py is not run *)
images_off ==
    /\ im_pc = "off" /\ im_rows = <<>>
    /\ mapping = [keys |-> <<>>, vals |-> <<>>, seen |-> <<>>]
    /\ remapped = [keys |-> <<>>, vals |-> <<>>, seen |-> <<>>]

(* none of the other scripts runs *)
scripts_off == handoff_off /\ sku_search_off /\ greedy_off /\ images_off

----------------------------------------------------------------------------
(* Helpers *)

Resolvers == 1..Len(skus)
Sources == 1..Len(ALLOWED_DOMAINS)
Tasks == Resolvers \X Sources

SeqsUpTo(S, n) == UNION {[1..k -> S] : k \in 0..n}

Range(s) == {s[k] : k \in 1..Len(s)}

Key(t) == <<skus[t[1]], ALLOWED_DOMAINS[t[2]]>>
AllKeys == Identifiers \X Range(AllDomains)

(* A URL: the domain it lives on and the SKU its path spells *)
Url(domain, sku) == [domain |-> domain, sku |-> sku]

(* hrefs of result anchors: a direct link, a bounce link /l/?uddg=<url>,   *)
(* or a relative href that is neither                                      *)
Href(kind, url) == [kind |-> kind, url |-> url]

Qualifying(sku, domain) ==
    { Href("http", Url(domain, sku)), Href("bounce", Url(domain, sku)) }
NonQualifying(sku, domain) ==
    { Href("http", Url("elsewhere.com", sku)), Href("rel", None) }

(* Result pages: no anchor, one anchor, or an anchor that does not qualify *)
(* followed by one that does                                               *)
Pages(sku, domain) ==
    {<<>>}
    \cup {<<a>> : a \in Qualifying(sku, domain) \cup NonQualifying(sku, domain)}
    \cup {<<a, b>> : a \in NonQualifying(sku, domain), b \in Qualifying(sku, domain)}

(* What session.get can produce for a query: a network error, a timeout,  *)
(* an HTTP error status, or a 200 page holding some result anchors         *)
Responses(sku, domain) ==
    [status : {"network_error", "timeout", "http_error"}, anchors : {<<>>}]
    \cup [status : {"ok"}, anchors : Pages(sku, domain)]

(* a _fetch that lets a timeout escape instead of mapping it to None *)
fetch_uncaught_timeout(response) ==
    IF response.status = "ok"
    THEN [raised |-> FALSE, isNone |-> FALSE, anchors |-> response.anchors]
    ELSE IF response.status \in {"network_error", "http_error"}
    THEN [raised |-> FALSE, isNone |-> TRUE, anchors |-> <<>>]
    ELSE [raised |-> TRUE, isNone |-> TRUE, anchors |-> <<>>]

(* lines 94-100: the page text; None when session.get or raise_for_status *)
(* raises an httpx.HTTPError (network errors, error statuses and timeouts  *)
(* are all of that class); any other exception would leave _fetch          *)
fetch(response) ==
    IF response.status = "ok"
    THEN [raised |-> FALSE, isNone |-> FALSE, anchors |-> response.anchors]
    ELSE IF response.status \in {"network_error", "timeout", "http_error"}
    THEN [raised |-> FALSE, isNone |-> TRUE, anchors |-> <<>>]
    ELSE [raised |-> TRUE, isNone |-> TRUE, anchors |-> <<>>]

extract_target_href(raw_href) ==
    IF raw_href.kind = "http" THEN raw_href.url
    ELSE IF raw_href.kind = "bounce" THEN raw_href.url
    ELSE None

(* lines 135-145: the first anchor of the page that is on the domain and   *)
(* matches the SKU                                                         *)
RECURSIVE first_link(_, _, _, _)
first_link(anchors, k, sku, domain) ==
    IF k > Len(anchors) THEN None
    ELSE LET target == extract_target_href(anchors[k])
         IN IF target = None THEN first_link(anchors, k + 1, sku, domain)
            ELSE IF target.domain = domain /\ target.sku = sku THEN target
            ELSE first_link(anchors, k + 1, sku, domain)

(* a lookup that returns a marker instead of None when the fetch failed *)
search_domain_link_marks_failure(html, sku, domain) ==
    IF html.isNone THEN Url("fetch-failed", sku)
    ELSE first_link(html.anchors, 1, sku, domain)

(* lines 135-148 of _search_domain: the link it returns for a fetched html *)
search_domain_link(html, sku, domain) ==
    IF html.isNone THEN None ELSE first_link(html.anchors, 1, sku, domain)

(* asyncio.Semaphore.locked() *)
waiter_cancelled(t) == tstate[t] = "waiting" /\ must_cancel[t]
sem_locked ==
    sem.value = 0 \/ \E k \in 1..Len(sem.waiters) : ~waiter_cancelled(sem.waiters[k])

(* a semaphore that hands a permit to a waiter whose cancel() was requested *)
RECURSIVE first_waiting(_, _)
first_waiting(ws, k) ==
    IF k > Len(ws) THEN NoTask
    ELSE IF tstate[ws[k]] = "waiting" THEN ws[k]
    ELSE first_waiting(ws, k + 1)

(* a semaphore whose release wakes no waiter *)
first_pending_none(ws, k) == NoTask

(* a semaphore that hands the permit to the waiter that queued last *)
last_pending(ws, k) ==
    LET P == {i \in k..Len(ws) : tstate[ws[i]] = "waiting" /\ ~must_cancel[ws[i]]}
    IN IF P = {} THEN NoTask ELSE ws[CHOOSE i \in P : \A j \in P : j <= i]

(* asyncio.Semaphore._wake_up_next(): the first waiter whose future is not *)
(* done (neither granted nor cancelled) is handed the permit               *)
RECURSIVE first_pending(_, _)
first_pending(ws, k) ==
    IF k > Len(ws) THEN NoTask
    ELSE IF tstate[ws[k]] = "waiting" /\ ~must_cancel[ws[k]] THEN ws[k]
    ELSE first_pending(ws, k + 1)

RemoveFrom(ws, t) == SelectSeq(ws, LAMBDA w : w # t)

(* The loop resumes the waiters that were handed a permit in the order the *)
(* permits were handed out, which is their order in the waiter list:       *)
(* set_result() queues each wake-up with call_soon, first in first out     *)
resumes_first(t) ==
    \A k \in 1..Len(sem.waiters) :
        sem.waiters[k] = t =>
            \A i \in 1..(k - 1) : tstate[sem.waiters[i]] # "granted"

----------------------------------------------------------------------------
(* Initial state: _gather_all has built the bar, the semaphore and the     *)
(* resolver coroutines (lines 181-190); nothing has run yet                *)

RECURSIVE Prefix(_, _)
Prefix(s, n) == IF n = 0 THEN <<>> ELSE Append(Prefix(s, n - 1), s[n])

(* the input lists: non-empty (_load_skus exits on an empty file), with    *)
(* repeats allowed, and up to renaming starting with the first identifier  *)
InputLists == {s \in SeqsUpTo(Identifiers, MaxTasks) : s # <<>> /\ s[1] = "ABC123"}

(* the engine's tables before any resolver has run; p is where _gather_all *)
(* stands                                                                  *)
engine_state(p) ==
    /\ pc = p
    /\ rstate = [r \in Resolvers |-> "new"]
    /\ tstate = [t \in Tasks |-> "none"]
    /\ must_cancel = [t \in Tasks |-> FALSE]
    /\ tlink = [t \in Tasks |-> None]
    /\ outcome = [t \in Tasks |-> "None"]
    /\ sem = [value |-> CONCURRENT_QUERIES, waiters |-> <<>>]
    /\ ready = <<>>
    /\ queue = [r \in Resolvers |-> <<>>]
    /\ consumed = [r \in Resolvers |-> 0]
    /\ found = [r \in Resolvers |-> <<>>]
    /\ res = <<>>
    /\ report = [keys |-> <<>>, vals |-> <<>>]
    /\ fetchCalls = [k \in AllKeys |-> 0]
    /\ domain_bar = [n |-> 0, total |-> Len(skus) * Len(ALLOWED_DOMAINS)]

engine_init(inputs, quotas) ==
    /\ skus \in inputs
    /\ ALLOWED_DOMAINS \in {Prefix(AllDomains, n) : n \in 0..Len(AllDomains)}
    /\ Len(skus) * Len(ALLOWED_DOMAINS) <= MaxTasks
    /\ MAX_LINKS_PER_SKU \in quotas
    /\ engine_state("gathering")
    /\ flf_pc = "off" /\ flf_i = 0 /\ collected = <<>> /\ searched = <<>>
    /\ scripts_off

(* a run under a valid configuration: a positive quota *)
Init == engine_init(InputLists, 1..MaxQuota)

(* a run under any quota, the non-positive ones included: nothing in the   *)
(* module checks MAX_LINKS_PER_SKU or ALLOWED_DOMAINS before the run       *)
UncheckedQuotas == {-1, 0, 1}
InitUnchecked == engine_init(InputLists, UncheckedQuotas)

----------------------------------------------------------------------------
(* Semaphore operations, as effects on (sem, tstate) *)

(* an exit of "async with sem" that keeps the permit *)
sem_release_kept(ts) == [s |-> sem, ts |-> ts]

(* release(): the counter goes up and _wake_up_next() hands the permit to  *)
(* the first pending waiter, if any.  ts is the task-state map after the   *)
(* releasing task's own change.                                            *)
sem_release(ts) ==
    LET w == first_pending(sem.waiters, 1)
    IN IF w = NoTask
       THEN [s |-> [sem EXCEPT !.value = @ + 1], ts |-> ts]
       ELSE [s |-> sem, ts |-> [ts EXCEPT ![w] = "granted"]]

(* a call that is issued twice, as by a leftover retry *)
fetch_issued_twice(t) == [fetchCalls EXCEPT ![Key(t)] = @ + 2]

(* line 133: the task calls _fetch for its key *)
fetch_issued(t) == [fetchCalls EXCEPT ![Key(t)] = @ + 1]

(* the resolver finishing: its gather wrapper records <<index, result>> *)
resolver_done(r, links) ==
    /\ rstate' = [rstate EXCEPT ![r] = "done"]
    /\ res' = Append(res, [i |-> r, links |-> links])

----------------------------------------------------------------------------
(* Actions *)

(* _links_for_sku up to its first await (lines 158-169): one task per      *)
(* domain, in list order; with no domain the loop body never runs          *)
links_for_sku_start(r) ==
    /\ pc = "gathering"
    /\ rstate[r] = "new"
    /\ IF Sources = {}
       THEN /\ resolver_done(r, found[r])
            /\ UNCHANGED <<tstate, ready>>
       ELSE /\ rstate' = [rstate EXCEPT ![r] = "running"]
            /\ tstate' = [t \in Tasks |-> IF t[1] = r THEN "created" ELSE tstate[t]]
            /\ ready' = ready \o [j \in Sources |-> <<r, j>>]
            /\ UNCHANGED res
    /\ UNCHANGED <<config, pc, must_cancel, tlink, outcome, sem, queue,
                   consumed, found, report, fetchCalls, domain_bar>>

(* gather hands every resolver to the loop at once (line 191), each        *)
(* resolver creates its tasks in its first step (lines 163-166), and the   *)
(* loop runs what is queued first in, first out: every resolver has run    *)
(* its first step before any lookup task runs its own, and every lookup    *)
(* task has run its first step before any answer is processed              *)
first_steps_due == ready # <<>> /\ \A r \in Resolvers : rstate[r] # "new"
first_steps_done == ready = <<>> /\ \A r \in Resolvers : rstate[r] # "new"

(* a start that calls _fetch without going through the semaphore's gate *)
search_domain_start_ungated(t) ==
    /\ tstate[t] = "created"
    /\ ~must_cancel[t]
    /\ first_steps_due /\ Head(ready) = t
    /\ ready' = Tail(ready)
    /\ sem' = [sem EXCEPT !.value = IF @ > 0 THEN @ - 1 ELSE @]
    /\ tstate' = [tstate EXCEPT ![t] = "fetching"]
    /\ fetchCalls' = fetch_issued(t)
    /\ UNCHANGED <<config, pc, rstate, must_cancel, tlink, outcome, queue,
                   consumed, found, res, report, domain_bar>>

(* _search_domain up to its first suspension (lines 128-133): take a       *)
(* permit and call _fetch, or queue on the semaphore.  The event loop runs *)
(* the first steps in the order the tasks were created.                    *)
search_domain_start(t) ==
    /\ tstate[t] = "created"
    /\ ~must_cancel[t]
    /\ first_steps_due /\ Head(ready) = t
    /\ ready' = Tail(ready)
    /\ IF ~sem_locked
       THEN /\ sem' = [sem EXCEPT !.value = @ - 1]
            /\ tstate' = [tstate EXCEPT ![t] = "fetching"]
            /\ fetchCalls' = fetch_issued(t)
       ELSE /\ sem' = [sem EXCEPT !.waiters = Append(@, t)]
            /\ tstate' = [tstate EXCEPT ![t] = "waiting"]
            /\ UNCHANGED fetchCalls
    /\ UNCHANGED <<config, pc, rstate, must_cancel, tlink, outcome, queue,
                   consumed, found, res, report, domain_bar>>

(* a waiter that was handed a permit resumes inside acquire(), leaves the  *)
(* waiter list, wakes the next waiter if the counter is positive, and      *)
(* calls _fetch (lines 132-133)                                            *)
search_domain_acquired(t) ==
    /\ tstate[t] = "granted"
    /\ ~must_cancel[t]
    /\ resumes_first(t)
    /\ LET ws == RemoveFrom(sem.waiters, t)
           w == first_pending(ws, 1)
       IN IF sem.value > 0 /\ w # NoTask
          THEN /\ sem' = [value |-> sem.value - 1, waiters |-> ws]
               /\ tstate' = [tstate EXCEPT ![t] = "fetching", ![w] = "granted"]
          ELSE /\ sem' = [sem EXCEPT !.waiters = ws]
               /\ tstate' = [tstate EXCEPT ![t] = "fetching"]
    /\ fetchCalls' = fetch_issued(t)
    /\ UNCHANGED ready
    /\ UNCHANGED <<config, pc, rstate, must_cancel, tlink, outcome, queue,
                   consumed, found, res, report, domain_bar>>

(* a bar that is ticked only for a lookup that found a link *)
domain_bar_update_on_link(link) ==
    IF link = None THEN domain_bar ELSE [domain_bar EXCEPT !.n = @ + 1]

(* lines 146-147: _domain_bar.update(1), whatever the link *)
domain_bar_update(link) == [domain_bar EXCEPT !.n = @ + 1]

(* an await of _fetch that resumes although cancel() was requested *)
fetch_resumes_despite_cancel(t) == tstate[t] = "fetching"

(* "await _fetch(session, url)" (line 133) resumes with the answer only in *)
(* a task nobody cancelled: Task.cancel() makes the pending await raise    *)
(* CancelledError instead                                                  *)
fetch_resumes(t) == tstate[t] = "fetching" /\ ~must_cancel[t]

(* session.get answers and _search_domain runs to its end (lines 96-100,   *)
(* 133-148): the permit is released, the link extracted, the bar ticked;   *)
(* as_completed then queues the finished task for the resolver             *)
search_domain_return(t, response) ==
    /\ fetch_resumes(t)
    /\ first_steps_done
    /\ LET html == fetch(response)
           link == search_domain_link(html, skus[t[1]], ALLOWED_DOMAINS[t[2]])
           rel == sem_release([tstate EXCEPT ![t] = "done"])
           rsd == sem_release([tstate EXCEPT ![t] = "raised"])
       IN IF html.raised
          THEN /\ sem' = rsd.s
               /\ tstate' = rsd.ts
               /\ outcome' = [outcome EXCEPT ![t] = "Raised"]
               /\ UNCHANGED <<tlink, domain_bar>>
          ELSE /\ sem' = rel.s
               /\ tstate' = rel.ts
               /\ tlink' = [tlink EXCEPT ![t] = link]
               /\ outcome' = [outcome EXCEPT ![t] =
                                 IF html.isNone THEN "Failed"
                                 ELSE IF link = None THEN "NotFound" ELSE "Found"]
               /\ domain_bar' = domain_bar_update(link)
    /\ queue' = [queue EXCEPT ![t[1]] = Append(@, t[2])]
    /\ UNCHANGED ready
    /\ UNCHANGED <<config, pc, rstate, must_cancel, consumed, found, res,
                   report, fetchCalls>>

(* CancelledError is raised in a task whose cancel() was requested, at the *)
(* await it is suspended on: a queued waiter just leaves the waiter list,  *)
(* a task holding a permit gives it back (acquire's except branch, or the  *)
(* exit of "async with sem"); a task cancelled before its first step never *)
(* runs a line of _search_domain                                           *)
search_domain_cancelled(t) ==
    /\ must_cancel[t]
    /\ tstate[t] \in {"created", "waiting", "granted", "fetching"}
    /\ tstate[t] = "granted" => resumes_first(t)
    /\ LET ws == RemoveFrom(sem.waiters, t)
           ts == [tstate EXCEPT ![t] = "cancelled"]
           w == first_pending(ws, 1)
       IN IF tstate[t] \in {"created", "waiting"}
          THEN /\ sem' = [sem EXCEPT !.waiters = ws]
               /\ tstate' = ts
          ELSE IF w = NoTask
          THEN /\ sem' = [value |-> sem.value + 1, waiters |-> ws]
               /\ tstate' = ts
          ELSE /\ sem' = [sem EXCEPT !.waiters = ws]
               /\ tstate' = [ts EXCEPT ![w] = "granted"]
    /\ ready' = RemoveFrom(ready, t)
    /\ must_cancel' = [must_cancel EXCEPT ![t] = FALSE]
    /\ queue' = [queue EXCEPT ![t[1]] = Append(@, t[2])]
    /\ UNCHANGED <<config, pc, rstate, tlink, outcome, consumed, found, res,
                   report, fetchCalls, domain_bar>>

(* a resolver that leaves its tasks running at the quota *)
cancel_none(r) == must_cancel

(* Task.cancel() on every task of resolver r (lines 173-174): a task that  *)
(* has not finished is marked; a finished one is left alone                *)
cancel_all(r) ==
    [t \in Tasks |->
        IF t[1] = r /\ tstate[t] \in {"created", "waiting", "granted", "fetching"}
        THEN TRUE ELSE must_cancel[t]]

(* awaiting the tasks in source-list order instead of completion order *)
next_completed_by_source(r) ==
    LET unconsumed == {queue[r][k] : k \in (consumed[r] + 1)..Len(queue[r])}
    IN CHOOSE j \in unconsumed : \A i \in unconsumed : j <= i

(* a resolver that awaits the first completion again and again *)
next_completed_first(r) == queue[r][1]

(* the next completion as_completed hands to resolver r *)
next_completed(r) == queue[r][consumed[r] + 1]

(* a resolver that takes its first link for a full quota *)
quota_reached_at_first(kept) == Len(kept) >= 1

(* a quota test that also fires above the quota *)
quota_reached_or_passed(kept) == Len(kept) >= MAX_LINKS_PER_SKU

(* a quota test that fires one link late *)
quota_reached_late(kept) == Len(kept) > MAX_LINKS_PER_SKU

(* line 172 *)
quota_reached(kept) == Len(kept) = MAX_LINKS_PER_SKU

(* One turn of the loop of _links_for_sku (lines 168-177): await the next  *)
(* completed task, keep its link, and at the quota cancel the rest and     *)
(* leave; after the last task, leave.                                      *)
links_for_sku_consume(r) ==
    /\ pc = "gathering"
    /\ rstate[r] = "running"
    /\ \A j \in Sources : tstate[<<r, j>>] # "created"
    /\ consumed[r] < Len(queue[r])
    /\ LET t == <<r, next_completed(r)>>
           link == tlink[t]
           kept == IF link # None THEN Append(found[r], link) ELSE found[r]
           quota == link # None /\ quota_reached(kept)
       IN IF tstate[t] = "raised"
          THEN \* "await coro" re-raises: the resolver, gather and the run end
               /\ rstate' = [rstate EXCEPT ![r] = "raised"]
               /\ pc' = "crashed"
               /\ UNCHANGED <<found, consumed, must_cancel, res>>
          ELSE /\ found' = [found EXCEPT ![r] = kept]
               /\ consumed' = [consumed EXCEPT ![r] = @ + 1]
               /\ must_cancel' = IF quota THEN cancel_all(r) ELSE must_cancel
               /\ pc' = pc
               /\ IF quota \/ consumed[r] + 1 = Len(ALLOWED_DOMAINS)
                  THEN resolver_done(r, kept)
                  ELSE UNCHANGED <<rstate, res>>
    /\ UNCHANGED ready
    /\ UNCHANGED <<config, tstate, tlink, outcome, sem, queue, report,
                   fetchCalls, domain_bar>>

(* sorted(res) of tqdm's gather: insertion sort on the index *)
RECURSIVE insert_sorted(_, _)
insert_sorted(s, e) ==
    IF s = <<>> THEN <<e>>
    ELSE IF e.i < Head(s).i THEN <<e>> \o s
    ELSE <<Head(s)>> \o insert_sorted(Tail(s), e)

RECURSIVE sorted(_)
sorted(s) == IF s = <<>> THEN <<>> ELSE insert_sorted(sorted(Tail(s)), Head(s))

(* a gather that returns the results in completion order *)
gather_results_unsorted(rs) == [k \in 1..Len(rs) |-> rs[k].links]

(* what gather returns: the resolvers' results in the order of the input *)
gather_results(rs) == [k \in 1..Len(rs) |-> sorted(rs)[k].links]

IndexOf(s, x) == CHOOSE k \in 1..Len(s) : s[k] = x

(* a dict that keeps the value a key was first given *)
RECURSIVE dict_zip_keep_first(_, _, _)
dict_zip_keep_first(ks, vs, n) ==
    IF n = 0 THEN [keys |-> <<>>, vals |-> <<>>]
    ELSE LET d == dict_zip_keep_first(ks, vs, n - 1)
         IN IF ks[n] \in Range(d.keys) THEN d
            ELSE [keys |-> Append(d.keys, ks[n]), vals |-> Append(d.vals, vs[n])]

(* a report that keeps only the identifiers that have links *)
RECURSIVE dict_zip_nonempty(_, _, _)
dict_zip_nonempty(ks, vs, n) ==
    IF n = 0 THEN [keys |-> <<>>, vals |-> <<>>]
    ELSE LET d == dict_zip_nonempty(ks, vs, n - 1)
         IN IF vs[n] = <<>> THEN d
            ELSE IF ks[n] \in Range(d.keys)
            THEN [d EXCEPT !.vals[IndexOf(d.keys, ks[n])] = vs[n]]
            ELSE [keys |-> Append(d.keys, ks[n]), vals |-> Append(d.vals, vs[n])]

(* dict(zip(keys, values)): a new key is appended, a repeated key keeps    *)
(* its place and takes the later value                                     *)
RECURSIVE dict_zip(_, _, _)
dict_zip(ks, vs, n) ==
    IF n = 0 THEN [keys |-> <<>>, vals |-> <<>>]
    ELSE LET d == dict_zip(ks, vs, n - 1)
         IN IF ks[n] \in Range(d.keys)
            THEN [d EXCEPT !.vals[IndexOf(d.keys, ks[n])] = vs[n]]
            ELSE [keys |-> Append(d.keys, ks[n]), vals |-> Append(d.vals, vs[n])]

Min(a, b) == IF a < b THEN a ELSE b

(* a gather that returns as soon as one resolver has returned *)
gather_all_finish_first ==
    /\ pc = "gathering"
    /\ \E r \in Resolvers : rstate[r] = "done"
    /\ LET results == gather_results(res)
       IN report' = dict_zip(skus, results, Min(Len(skus), Len(results)))
    /\ pc' = "done"
    /\ UNCHANGED ready
    /\ UNCHANGED <<config, rstate, tstate, must_cancel, tlink, outcome, sem,
                   queue, consumed, found, res, fetchCalls, domain_bar>>

(* lines 191-194: every resolver has returned; build the returned dict *)
gather_all_finish ==
    /\ pc = "gathering"
    /\ \A r \in Resolvers : rstate[r] = "done"
    /\ \E results \in {gather_results(res)} :
          report' = dict_zip(skus, results, Min(Len(skus), Len(results)))
    /\ pc' = "done"
    /\ UNCHANGED ready
    /\ UNCHANGED <<config, rstate, tstate, must_cancel, tlink, outcome, sem,
                   queue, consumed, found, res, fetchCalls, domain_bar>>

Next ==
    \/ \E r \in Resolvers : links_for_sku_start(r)
    \/ \E t \in Tasks : search_domain_start(t)
    \/ \E t \in Tasks : search_domain_acquired(t)
    \/ \E t \in Tasks : \E response \in Responses(skus[t[1]], ALLOWED_DOMAINS[t[2]]) :
            search_domain_return(t, response)
    \/ \E t \in Tasks : search_domain_cancelled(t)
    \/ \E r \in Resolvers : links_for_sku_consume(r)
    \/ gather_all_finish

Spec == Init /\ [][Next]_vars

SpecUnchecked == InitUnchecked /\ [][Next]_vars


(* Ctrl-C while asyncio.run(_gather_all(skus)) is running (line 234): the  *)
(* runner cancels the main task, which leaves _gather_all at its await     *)
(* (line 191) with CancelledError, then cancels every task still alive;    *)
(* KeyboardInterrupt leaves main before _write_csv(res) (line 235), which  *)
(* nothing catches: no result is returned and no report is written         *)
interrupt ==
    /\ pc = "gathering"
    /\ pc' = "interrupted"
    /\ rstate' = [r \in Resolvers |->
                     IF rstate[r] = "running" THEN "cancelled" ELSE rstate[r]]
    /\ must_cancel' = [t \in Tasks |->
                          must_cancel[t]
                          \/ tstate[t] \in {"created", "waiting", "granted", "fetching"}]
    /\ UNCHANGED ready
    /\ UNCHANGED <<config, tstate, tlink, outcome, sem, queue, consumed, found,
                   res, report, fetchCalls, domain_bar>>

NextInterruptible == Next \/ interrupt

SpecInterruptible == Init /\ [][NextInterruptible]_vars

----------------------------------------------------------------------------
(* The engine on one fixed input: a repeated identifier, two sources, one  *)
(* of which fails for one identifier, and a quota of one link              *)

InitScenario ==
    /\ skus = <<"ABC123", "XYZ999", "ABC123">>
    /\ ALLOWED_DOMAINS = <<"site-a.com", "site-b.com">>
    /\ MAX_LINKS_PER_SKU = 1
    /\ engine_state("gathering")
    /\ flf_pc = "off" /\ flf_i = 0 /\ collected = <<>> /\ searched = <<>>
    /\ scripts_off

(* what session.get answers in the scenario: site-a.com fails for XYZ999,  *)
(* every other query gets a page with an anchor that qualifies             *)
ScenarioResponses(sku, domain) ==
    {response \in Responses(sku, domain) :
        IF sku = "XYZ999" /\ domain = "site-a.com"
        THEN response.status # "ok"
        ELSE /\ response.status = "ok"
             /\ first_link(response.anchors, 1, sku, domain) # None}

NextScenario ==
    \/ \E r \in Resolvers : links_for_sku_start(r)
    \/ \E t \in Tasks : search_domain_start(t)
    \/ \E t \in Tasks : search_domain_acquired(t)
    \/ \E t \in Tasks :
          \E response \in ScenarioResponses(skus[t[1]], ALLOWED_DOMAINS[t[2]]) :
              search_domain_return(t, response)
    \/ \E t \in Tasks : search_domain_cancelled(t)
    \/ \E r \in Resolvers : links_for_sku_consume(r)
    \/ gather_all_finish

SpecScenario == InitScenario /\ [][NextScenario]_vars

----------------------------------------------------------------------------
(* The sequential resolver: find_links_for of sku_search2.py *)

(* a result anchor as find_links_for reads it: the href's netloc and path, *)
(* and where the SKU shows up in the href and in the title                 *)
Netloc(www, host) == [www |-> www, host |-> host]
Feature(h, b, e, t, w) ==
    [in_href |-> h, boundary |-> b, at_end |-> e, in_title |-> t, title_word |-> w]
Features ==
    { Feature(FALSE, FALSE, FALSE, FALSE, FALSE),
      Feature(TRUE, FALSE, FALSE, FALSE, FALSE),
      Feature(TRUE, TRUE, TRUE, FALSE, FALSE),
      Feature(FALSE, FALSE, FALSE, TRUE, FALSE),
      Feature(FALSE, TRUE, FALSE, TRUE, TRUE),
      Feature(TRUE, FALSE, FALSE, TRUE, FALSE) }
Netlocs(domain) ==
    { Netloc(FALSE, domain), Netloc(TRUE, domain), Netloc(FALSE, "elsewhere.com") }
Anchor(netloc, path, f) == [href |-> [netloc |-> netloc, path |-> path], f |-> f]

(* result pages of one search: one or two anchors *)
ResultPages(domain) ==
    {<<Anchor(n, 1, f)>> : n \in Netlocs(domain), f \in Features}
    \cup {<<Anchor(n, 1, f), Anchor(m, 2, g)>> :
              n \in Netlocs(domain), f \in Features,
              m \in Netlocs(domain), g \in Features}

(* wait.until raises TimeoutException, or the result anchors are there *)
SearchResults(domain) ==
    {[timeout |-> TRUE, anchors |-> <<>>]}
    \cup {[timeout |-> FALSE, anchors |-> pg] : pg \in ResultPages(domain)}

(* normalize (lines 63-68): the netloc without a leading "www." *)
normalize(netloc) == netloc.host

(* the relevance score of lines 98-125 *)
score(f) ==
    (IF f.in_href
     THEN 10 + (IF f.boundary THEN 5 ELSE 0) + (IF f.at_end THEN 3 ELSE 0)
     ELSE 0)
    + (IF f.in_title THEN 5 + (IF f.title_word THEN 3 ELSE 0) ELSE 0)

NoLink == [netloc |-> Netloc(FALSE, "None"), path |-> 0]

(* lines 85-130: the anchor loop, carrying best_link and best_score *)
RECURSIVE best_link(_, _, _, _, _)
best_link(anchors, k, domain, best, best_score) ==
    IF k > Len(anchors) THEN best
    ELSE IF normalize(anchors[k].href.netloc) # domain
    THEN best_link(anchors, k + 1, domain, best, best_score)
    ELSE IF score(anchors[k].f) > 0 /\ score(anchors[k].f) > best_score
    THEN best_link(anchors, k + 1, domain, anchors[k].href, score(anchors[k].f))
    ELSE best_link(anchors, k + 1, domain, best, best_score)

(* collected[domain] = link on an insertion-ordered dict *)
dict_set(d, key, val) ==
    IF \E k \in 1..Len(d) : d[k].domain = key
    THEN [k \in 1..Len(d) |-> IF d[k].domain = key
                               THEN [domain |-> key, link |-> val] ELSE d[k]]
    ELSE Append(d, [domain |-> key, link |-> val])

(* find_links_for is called: collected = {} (line 74) *)
find_links_for_call ==
    /\ flf_pc = "off" /\ pc = "off"
    /\ flf_pc' = "loop"
    /\ flf_i' = 1
    /\ UNCHANGED <<ready, scripts>>
    /\ UNCHANGED <<skus, ALLOWED_DOMAINS, MAX_LINKS_PER_SKU, pc, rstate, tstate,
                   must_cancel, tlink, outcome, sem, queue, consumed, found,
                   res, report, fetchCalls, domain_bar, collected, searched>>

(* one round of "for domain in ALLOWED_DOMAINS" (lines 76-137): the search *)
(* is issued, and either times out or its best anchor is kept              *)
find_links_for_search(result) ==
    /\ flf_pc = "loop"
    /\ flf_i <= Len(ALLOWED_DOMAINS)
    /\ LET domain == ALLOWED_DOMAINS[flf_i]
           best == best_link(result.anchors, 1, domain, NoLink, 0)
       IN /\ searched' = Append(searched, domain)
          /\ collected' = IF result.timeout \/ best = NoLink
                          THEN collected
                          ELSE dict_set(collected, domain, best)
    /\ flf_i' = flf_i + 1
    /\ UNCHANGED <<ready, scripts>>
    /\ UNCHANGED <<skus, ALLOWED_DOMAINS, MAX_LINKS_PER_SKU, pc, rstate, tstate,
                   must_cancel, tlink, outcome, sem, queue, consumed, found,
                   res, report, fetchCalls, domain_bar, flf_pc>>

(* line 140: return list(collected.values()) *)
find_links_for_return ==
    /\ flf_pc = "loop"
    /\ flf_i > Len(ALLOWED_DOMAINS)
    /\ flf_pc' = "returned"
    /\ UNCHANGED <<ready, scripts>>
    /\ UNCHANGED <<skus, ALLOWED_DOMAINS, MAX_LINKS_PER_SKU, pc, rstate, tstate,
                   must_cancel, tlink, outcome, sem, queue, consumed, found,
                   res, report, fetchCalls, domain_bar, flf_i, collected, searched>>

NextSequential ==
    \/ find_links_for_call
    \/ /\ flf_i \in 1..Len(ALLOWED_DOMAINS)
       /\ \E result \in SearchResults(ALLOWED_DOMAINS[flf_i]) :
             find_links_for_search(result)
    \/ find_links_for_return

(* one call of find_links_for, the engine not running *)
InitSequential ==
    /\ skus \in {<<sku>> : sku \in Identifiers}
    /\ ALLOWED_DOMAINS \in {Prefix(AllDomains, n) : n \in 0..Len(AllDomains)}
    /\ Len(ALLOWED_DOMAINS) <= MaxTasks
    /\ MAX_LINKS_PER_SKU = 1
    /\ engine_state("off")
    /\ flf_pc = "off" /\ flf_i = 0 /\ collected = <<>> /\ searched = <<>>
    /\ scripts_off

(* runs of the engine with two more lookups than permits, so that lookups *)
(* of one resolver queue on the semaphore                                  *)
QueuedInputs ==
    {s \in SeqsUpTo(Identifiers, CONCURRENT_QUERIES + 2) : s # <<>> /\ s[1] = "ABC123"}
InitQueued ==
    /\ skus \in QueuedInputs
    /\ ALLOWED_DOMAINS \in {Prefix(AllDomains, n) : n \in 1..Len(AllDomains)}
    /\ Len(skus) * Len(ALLOWED_DOMAINS) = CONCURRENT_QUERIES + 2
    /\ Len(ALLOWED_DOMAINS) >= 2
    /\ MAX_LINKS_PER_SKU \in 1..MaxQuota
    /\ engine_state("gathering")
    /\ flf_pc = "off" /\ flf_i = 0 /\ collected = <<>> /\ searched = <<>>
    /\ scripts_off

(* a run of the engine with lookups queued on the semaphore, in which the  *)
(* loop keeps running what is ready and every session.get answers in the   *)
(* end (httpx's timeout bounds each call): no step that can be taken is    *)
(* put off for ever                                                        *)
SpecFair == InitQueued /\ [][Next]_vars /\ WF_vars(Next)

(* a run of either resolver: the async engine or the sequential one *)
InitResolvers == Init \/ InitSequential
NextResolvers == Next \/ NextSequential
SpecResolvers == InitResolvers /\ [][NextResolvers]_vars

InitOrdered == InitQueued \/ InitSequential
SpecOrdered == InitOrdered /\ [][NextResolvers]_vars

----------------------------------------------------------------------------
(* The captcha hand-off: main.solve_captcha_with_brightdata runs main2.py  *)
(* as a subprocess and looks for the solution it left                      *)

(* neither resolver runs: the engine's tables are those of an idle run *)
resolvers_off ==
    /\ skus = <<"ABC123">>
    /\ ALLOWED_DOMAINS = <<>>
    /\ MAX_LINKS_PER_SKU = 1
    /\ engine_state("off")
    /\ flf_pc = "off" /\ flf_i = 0 /\ collected = <<>> /\ searched = <<>>

(* main.py line 165-166: a captcha was detected and the solver is called;  *)
(* the working directory may hold a solution file left there earlier       *)
InitHandoff ==
    /\ resolvers_off
    /\ h_pc = "called"
    /\ session_state = "absent"
    /\ captcha_solution \in {"absent", "earlier"}
    /\ page_source = "absent"
    /\ returncode = -1 /\ solved = "None"
    /\ sku_search_off /\ greedy_off /\ images_off

(* main.py lines 59-72: the state is written to session_state.json; when   *)
(* the driver or the write raises, line 112-114 returns False              *)
solve_captcha_save_state(raises) ==
    /\ h_pc = "called"
    /\ IF raises
       THEN /\ h_pc' = "returned" /\ solved' = "False"
            /\ UNCHANGED session_state
       ELSE /\ h_pc' = "saved" /\ session_state' = "written"
            /\ UNCHANGED solved
    /\ UNCHANGED <<resolvers, sku_search, greedy, images, captcha_solution, page_source,
                   returncode>>

(* main.py lines 76-79 and main2.main (lines 83-141): the subprocess runs  *)
(* to its exit.  main2.py reads no file; when nothing raises it writes     *)
(* page.png and page_source.html and exits with 0, and an exception that   *)
(* escapes main exits with 1                                               *)
main2_main(raises) ==
    /\ h_pc = "saved"
    /\ h_pc' = "ran"
    /\ returncode' = IF raises THEN 1 ELSE 0
    /\ page_source' = IF raises THEN page_source ELSE "written"
    /\ UNCHANGED <<resolvers, sku_search, greedy, images, session_state, captcha_solution,
                   solved>>

(* main.py lines 81-114: on return code 0 the solution file is looked for  *)
(* and applied; applying it may raise, which returns False                 *)
solve_captcha_result(raises) ==
    /\ h_pc = "ran"
    /\ h_pc' = "returned"
    /\ solved' = IF returncode = 0 /\ captcha_solution # "absent" /\ ~raises
                 THEN "True" ELSE "False"
    /\ UNCHANGED <<resolvers, sku_search, greedy, images, session_state, captcha_solution,
                   page_source, returncode>>

NextHandoff ==
    \/ \E raises \in BOOLEAN : solve_captcha_save_state(raises)
    \/ \E raises \in BOOLEAN : main2_main(raises)
    \/ \E raises \in BOOLEAN : solve_captcha_result(raises)

----------------------------------------------------------------------------
(* sku_search.py: every SKU of skus.txt is searched and its links written  *)
(* to sku_links.txt                                                        *)

(* the lines of skus.txt: "" is a line that is blank after strip() *)
RawLines == {"ABC123", "XYZ999", ""}

(* lines 100-104: the lines of skus.txt, stripped, the blank ones dropped *)
RECURSIVE load_skus(_, _)
load_skus(lines, k) ==
    IF k > Len(lines) THEN <<>>
    ELSE IF lines[k] = "" THEN load_skus(lines, k + 1)
    ELSE <<lines[k]>> \o load_skus(lines, k + 1)

(* a result anchor: its href, and whether the SKU occurs in one of its six *)
(* haystacks (lines 85-93)                                                 *)
ResultAnchor(h, m) == [href |-> h, mentions |-> m]

(* the result pages DuckDuckGo may show for a SKU *)
DuckPages(sku) ==
    {<<>>,
     <<ResultAnchor(Url("site-a.com", sku), TRUE)>>,
     <<ResultAnchor(Url("site-b.com", "other"), FALSE)>>,
     <<ResultAnchor(Url("site-b.com", sku), TRUE),
       ResultAnchor(Url("site-c.com", "other"), FALSE),
       ResultAnchor(Url("site-a.com", sku), TRUE)>>}

(* what str(e) is, split at its newlines, for the exceptions links_for lets *)
(* through: one piece for a message without a newline; selenium's          *)
(* WebDriverException renders as "Message: ...\n", which is two pieces, and *)
(* as three or more with a stack trace                                     *)
ExceptionTexts == {<<"ERROR">>, <<"ERROR", "TEXT">>, <<"ERROR", "TEXT", "TEXT">>}

(* what one call of links_for meets: the wait times out, the page shows    *)
(* anchors, or the driver raises                                           *)
DuckResults(sku) ==
    {[kind |-> "timeout", anchors |-> <<>>, text |-> <<>>]}
    \cup {[kind |-> "page", anchors |-> a, text |-> <<>>] : a \in DuckPages(sku)}
    \cup {[kind |-> "raise", anchors |-> <<>>, text |-> x] : x \in ExceptionTexts}

(* links_for, lines 55-96: the hrefs of the anchors that mention the SKU,  *)
(* in page order; [] on a timeout                                          *)
RECURSIVE matching_links(_, _)
matching_links(anchors, k) ==
    IF k > Len(anchors) THEN <<>>
    ELSE IF anchors[k].mentions
         THEN <<anchors[k].href>> \o matching_links(anchors, k + 1)
         ELSE matching_links(anchors, k + 1)

links_for(result) ==
    IF result.kind = "timeout" THEN <<>> ELSE matching_links(result.anchors, 1)

(* out.write(text + "\n") where text starts with sku, a tab and the first  *)
(* of pieces: every newline inside the text ends a line of the file, and   *)
(* the lines after the first carry no SKU                                  *)
write_lines(sku, pieces) ==
    [j \in 1..Len(pieces) |->
        [key |-> IF j = 1 THEN sku ELSE "", kind |-> pieces[j], link |-> None]]

(* line 117, once per link *)
write_links(sku, links) ==
    [j \in 1..Len(links) |-> [key |-> sku, kind |-> "link", link |-> links[j]]]

(* lines 100-106: skus.txt is read and sku_links.txt opened for writing *)
sku_search_main_start(lines) ==
    /\ ss_pc = "start"
    /\ ss_pc' = "loop"
    /\ ss_skus' = load_skus(lines, 1)
    /\ ss_i' = 1
    /\ out' = <<>>
    /\ UNCHANGED <<resolvers, handoff, greedy, images, ss_calls>>

(* one round of "for sku in skus" (lines 107-122) *)
sku_search_main_round(result) ==
    /\ ss_pc = "loop"
    /\ ss_i <= Len(ss_skus)
    /\ LET sku == ss_skus[ss_i]
           matches == links_for(result)
       IN out' = out \o
                 (IF result.kind = "raise" THEN write_lines(sku, result.text)
                  ELSE IF matches # <<>> THEN write_links(sku, matches)
                  ELSE write_lines(sku, <<"NOT_FOUND">>))
    /\ ss_calls' = Append(ss_calls, result)
    /\ ss_i' = ss_i + 1
    /\ UNCHANGED <<resolvers, handoff, greedy, images, ss_pc, ss_skus>>

(* line 124: the loop is over and the file closed *)
sku_search_main_end ==
    /\ ss_pc = "loop"
    /\ ss_i > Len(ss_skus)
    /\ ss_pc' = "done"
    /\ UNCHANGED <<resolvers, handoff, greedy, images, ss_skus, ss_i, ss_calls, out>>

NextSkuSearch ==
    \/ /\ ss_pc = "start"
       /\ \E lines \in SeqsUpTo(RawLines, MaxLines) : sku_search_main_start(lines)
    \/ /\ ss_pc = "loop" /\ ss_i <= Len(ss_skus)
       /\ \E result \in DuckResults(ss_skus[ss_i]) : sku_search_main_round(result)
    \/ sku_search_main_end

(* python sku_search.py *)
InitSkuSearch ==
    /\ resolvers_off
    /\ handoff_off
    /\ greedy_off /\ images_off
    /\ ss_pc = "start" /\ ss_skus = <<>> /\ ss_i = 0 /\ ss_calls = <<>>
    /\ out = <<>>

----------------------------------------------------------------------------
(* file_handler/greedy_finder.py: a small set of domains that covers the   *)
(* SKUs of sku_links.txt                                                   *)

(* line 11, as netlocs *)
EXCLUDE ==
    { Netloc(TRUE, "ebay.com"), Netloc(FALSE, "ebay.com"),
      Netloc(TRUE, "amazon.com"), Netloc(FALSE, "amazon.com") }

(* lines 14-21: lower case, no port, and a leading "www." *)
normalize_netloc(netloc) == [netloc EXCEPT !.www = TRUE]

(* a line of sku_links.txt as lines 31-38 read it: tabbed is whether       *)
(* strip().split("\t", 1) gives two parts, http whether the second starts *)
(* with http:// or https://, netloc the netloc of that URL                 *)
LinkLine(tabbed, sku, http, netloc) ==
    [tabbed |-> tabbed, sku |-> sku, http |-> http, netloc |-> netloc]
LinkNetlocs ==
    { Netloc(FALSE, "site-a.com"), Netloc(TRUE, "site-a.com"),
      Netloc(FALSE, "site-b.com"), Netloc(FALSE, "ebay.com") }
LinkLines ==
    {LinkLine(FALSE, "", FALSE, Netloc(FALSE, ""))}
    \cup {LinkLine(TRUE, sku, FALSE, Netloc(FALSE, "")) : sku \in Identifiers}
    \cup {LinkLine(TRUE, sku, TRUE, n) : sku \in Identifiers, n \in LinkNetlocs}

(* domain_to_skus[dom].add(sku) on the defaultdict (line 42) *)
d2s_add(d2s, dom, sku) ==
    IF \E i \in 1..Len(d2s) : d2s[i].dom = dom
    THEN [i \in 1..Len(d2s) |->
             IF d2s[i].dom = dom
             THEN [d2s[i] EXCEPT !.skus = @ \cup {sku}] ELSE d2s[i]]
    ELSE Append(d2s, [dom |-> dom, skus |-> {sku}])

(* lines 31-42 for one line: what it adds to all_skus and domain_to_skus *)
read_line(all, d2s, ln) ==
    LET dom == normalize_netloc(ln.netloc)
    IN IF ~ln.tabbed THEN [all |-> all, d2s |-> d2s]
       ELSE IF ~ln.http \/ dom \in EXCLUDE
       THEN [all |-> all \cup {ln.sku}, d2s |-> d2s]
       ELSE [all |-> all \cup {ln.sku}, d2s |-> d2s_add(d2s, dom, ln.sku)]

(* lines 50-54: max() over the dict's items by the number of uncovered     *)
(* SKUs; the first of the largest in dict order; 0 stands for the default  *)
best_index(d2s, cov) ==
    IF d2s = <<>> THEN 0
    ELSE CHOOSE i \in 1..Len(d2s) :
            /\ \A j \in 1..Len(d2s) :
                  Cardinality(d2s[j].skus \ cov) <= Cardinality(d2s[i].skus \ cov)
            /\ \A j \in 1..(i - 1) :
                  Cardinality(d2s[j].skus \ cov) < Cardinality(d2s[i].skus \ cov)

(* a loop that stops only when no domain is left *)
cover_exhausted_when_empty(d2s, cov) == d2s = <<>>

(* line 55: not best_dom or not (skus - covered) *)
cover_exhausted(d2s, cov) ==
    IF best_index(d2s, cov) = 0 THEN TRUE
    ELSE d2s[best_index(d2s, cov)].skus \ cov = {}

(* one round of "for line in f" (lines 30-42) *)
greedy_main_read(ln) ==
    /\ g_pc = "read"
    /\ Len(g_lines) < MaxLinks
    /\ g_lines' = Append(g_lines, ln)
    /\ all_skus' = read_line(all_skus, domain_to_skus, ln).all
    /\ domain_to_skus' = read_line(all_skus, domain_to_skus, ln).d2s
    /\ UNCHANGED <<resolvers, handoff, sku_search, images, g_pc, covered,
                   selected>>

(* the file is at its end; covered and selected start empty (lines 45-46) *)
greedy_main_eof ==
    /\ g_pc = "read"
    /\ g_pc' = "loop"
    /\ covered' = {}
    /\ selected' = <<>>
    /\ UNCHANGED <<resolvers, handoff, sku_search, images, g_lines, all_skus,
                   domain_to_skus>>

(* one round of the while loop that selects a domain (lines 48-62) *)
greedy_main_round ==
    /\ g_pc = "loop"
    /\ covered # all_skus
    /\ ~cover_exhausted(domain_to_skus, covered)
    /\ LET i == best_index(domain_to_skus, covered)
       IN /\ selected' = Append(selected, domain_to_skus[i].dom)
          /\ covered' = covered \cup domain_to_skus[i].skus
          /\ domain_to_skus' =
                SubSeq(domain_to_skus, 1, i - 1)
                \o SubSeq(domain_to_skus, i + 1, Len(domain_to_skus))
    /\ UNCHANGED <<resolvers, handoff, sku_search, images, g_pc, g_lines,
                   all_skus>>

(* the loop is left, by its condition (line 48) or by break (lines 55-57), *)
(* and the report is printed (lines 64-74)                                 *)
greedy_main_report ==
    /\ g_pc = "loop"
    /\ IF covered = all_skus THEN TRUE
       ELSE cover_exhausted(domain_to_skus, covered)
    /\ g_pc' = "report"
    /\ UNCHANGED <<resolvers, handoff, sku_search, images, g_lines, all_skus,
                   domain_to_skus, covered, selected>>

NextGreedy ==
    \/ \E ln \in LinkLines : greedy_main_read(ln)
    \/ greedy_main_eof
    \/ greedy_main_round
    \/ greedy_main_report

(* python greedy_finder.py: the dict and the set are empty (lines 26-27) *)
InitGreedy ==
    /\ resolvers_off
    /\ handoff_off /\ sku_search_off /\ images_off
    /\ g_pc = "read" /\ g_lines = <<>>
    /\ all_skus = {}
    /\ domain_to_skus = <<>> /\ covered = {} /\ selected = <<>>

----------------------------------------------------------------------------
(* images_to_json.py: build_mapping                                        *)

(* A field of a line: its text, whether it is written in lower case, and   *)
(* whether blanks surround it.  "" has no case.                            *)
Field(txt, lower, pad) == [txt |-> txt, lower |-> lower, pad |-> pad]

(* str.strip() and str.upper() *)
strip(f) == [f EXCEPT !.pad = FALSE]
upper(f) == [f EXCEPT !.lower = FALSE]

(* the SKU fields: abc123, " ABC123 ", XYZ999 *)
ImageSkus ==
    {Field("ABC123", TRUE, FALSE), Field("ABC123", FALSE, TRUE),
     Field("XYZ999", FALSE, FALSE)}

(* the URL fields: "", " ", img1, " img1 ", img2 *)
ImageUrls ==
    {Field("", FALSE, FALSE), Field("", FALSE, TRUE),
     Field("IMG1", TRUE, FALSE), Field("IMG1", TRUE, TRUE),
     Field("IMG2", TRUE, FALSE)}

(* The lines: SKU<TAB>Name<TAB>Image_URL, and a line of two fields *)
ImageRows ==
    {[parts |-> 2, sku |-> Field("ABC123", FALSE, FALSE),
      url |-> Field("", FALSE, FALSE)]}
    \cup {[parts |-> 3, sku |-> s, url |-> u] : s \in ImageSkus, u \in ImageUrls}

(* where a key sits in the OrderedDict *)
key_index(keys, key) == CHOOSE p \in 1..Len(keys) : keys[p] = key

(* lines 49-51: a new key gets an empty list and an empty set *)
setdefault(m, key) ==
    IF key \in Range(m.keys) THEN m
    ELSE [keys |-> Append(m.keys, key), vals |-> Append(m.vals, <<>>),
          seen |-> Append(m.seen, {})]

(* lines 52-54 without the test of line 52 *)
add_url_always(m, key, url) ==
    [m EXCEPT !.vals[key_index(m.keys, key)] = Append(@, url),
              !.seen[key_index(m.keys, key)] = @ \cup {url}]

(* lines 52-54: a URL not seen for this key is appended *)
add_url(m, key, url) ==
    IF url \in m.seen[key_index(m.keys, key)] THEN m
    ELSE [m EXCEPT !.vals[key_index(m.keys, key)] = Append(@, url),
                   !.seen[key_index(m.keys, key)] = @ \cup {url}]

(* one round of "for ln in lines" (lines 42-54) *)
build_row(m, ln) ==
    IF ln.parts < 3 THEN m
    ELSE IF strip(ln.url).txt = "" THEN m
    ELSE add_url(setdefault(m, upper(strip(ln.sku))), upper(strip(ln.sku)),
                 strip(ln.url))

(* build_mapping over the first k lines (lines 36-55) *)
RECURSIVE build_mapping(_, _)
build_mapping(lines, k) ==
    IF k = 0 THEN [keys |-> <<>>, vals |-> <<>>, seen |-> <<>>]
    ELSE build_row(build_mapping(lines, k - 1), lines[k])

(* the lines SKU<TAB>Name<TAB>Image_URL of the first p keys of a mapping *)
RECURSIVE rebuilt_rows(_, _)
rebuilt_rows(m, p) ==
    IF p = 0 THEN <<>>
    ELSE rebuilt_rows(m, p - 1)
         \o [j \in 1..Len(m.vals[p]) |->
                [parts |-> 3, sku |-> m.keys[p], url |-> m.vals[p][j]]]

(* build_mapping goes through one more line *)
images_build_row(ln) ==
    /\ im_pc = "start"
    /\ Len(im_rows) < MaxRows
    /\ im_rows' = Append(im_rows, ln)
    /\ mapping' = build_row(mapping, ln)
    /\ UNCHANGED <<resolvers, handoff, sku_search, greedy, im_pc, remapped>>

(* line 55 *)
images_build_return ==
    /\ im_pc = "start"
    /\ im_pc' = "built"
    /\ UNCHANGED <<resolvers, handoff, sku_search, greedy, im_rows, mapping,
                   remapped>>

(* build_mapping is applied to the lines rebuilt from what it returned *)
images_rebuild ==
    /\ im_pc = "built"
    /\ im_pc' = "rebuilt"
    /\ \E rows \in {rebuilt_rows(mapping, Len(mapping.keys))} :
           remapped' = build_mapping(rows, Len(rows))
    /\ UNCHANGED <<resolvers, handoff, sku_search, greedy, im_rows, mapping>>

NextImages ==
    \/ \E ln \in ImageRows : images_build_row(ln)
    \/ images_build_return
    \/ images_rebuild

(* build_mapping is called: mapping and seen_per_sku are empty (38-39) *)
InitImages ==
    /\ resolvers_off
    /\ handoff_off /\ sku_search_off /\ greedy_off
    /\ im_pc = "start" /\ im_rows = <<>>
    /\ mapping = [keys |-> <<>>, vals |-> <<>>, seen |-> <<>>]
    /\ remapped = [keys |-> <<>>, vals |-> <<>>, seen |-> <<>>]

----------------------------------------------------------------------------
(* The scripts beside the resolvers, one of them per run *)

InitScripts == InitHandoff \/ InitSkuSearch \/ InitGreedy \/ InitImages
NextScripts == NextHandoff \/ NextSkuSearch \/ NextGreedy \/ NextImages
SpecScripts == InitScripts /\ [][NextScripts]_vars

(* greedy_finder.py is a sequential program: when its next statement can  *)
(* run, it runs                                                            *)
SpecGreedyFair == SpecScripts /\ WF_vars(NextGreedy)

TypeOK ==
    /\ pc \in {"gathering", "done", "crashed", "interrupted", "off"}
    /\ flf_pc \in {"off", "loop", "returned"}
    /\ flf_i \in 0..(Len(ALLOWED_DOMAINS) + 1)
    /\ Len(collected) <= Len(searched)
    /\ \A r \in Resolvers :
          rstate[r] \in {"new", "running", "done", "raised", "cancelled"}
    /\ \A t \in Tasks : tstate[t] \in {"none", "created", "waiting", "granted",
                                        "fetching", "done", "raised", "cancelled"}
    /\ sem.value \in 0..CONCURRENT_QUERIES
    /\ h_pc \in {"off", "called", "saved", "ran", "returned"}
    /\ captcha_solution \in {"absent", "earlier", "main2"}
    /\ returncode \in {-1, 0, 1}
    /\ solved \in {"None", "True", "False"}
    /\ ss_pc \in {"off", "start", "loop", "done"}
    /\ ss_i \in 0..(Len(ss_skus) + 1)
    /\ Len(ss_calls) <= Len(ss_skus)
    /\ g_pc \in {"off", "read", "loop", "report"}
    /\ covered \subseteq Identifiers /\ all_skus \subseteq Identifiers
    /\ im_pc \in {"off", "start", "built", "rebuilt"}
    /\ \A i \in 1..Len(ready) :
          ready[i] \in Tasks /\ tstate[ready[i]] = "created"

----------------------------------------------------------------------------
(* Properties *)

Distinct(s) == \A i, j \in 1..Len(s) : i # j => s[i] # s[j]
TasksOf(r) == {t \in Tasks : t[1] = r}
InFlight == {t \in Tasks : tstate[t] = "fetching"}
Pending(t) == tstate[t] \in {"created", "waiting", "granted", "fetching"}
HasOutcome(t) == outcome[t] # "None"
Ended(t) == tstate[t] \in {"done", "raised", "cancelled"}

(* the links a resolver accepts from a sequence of completed tasks *)
RECURSIVE links_of(_, _)
links_of(r, q) ==
    IF q = <<>> THEN <<>>
    ELSE IF tlink[<<r, Head(q)>>] # None
         THEN <<tlink[<<r, Head(q)>>]>> \o links_of(r, Tail(q))
         ELSE links_of(r, Tail(q))

FirstPos(s, x) == CHOOSE k \in 1..Len(s) : s[k] = x /\ \A i \in 1..(k - 1) : s[i] # x
LastPos(s, x) == CHOOSE k \in 1..Len(s) : s[k] = x /\ \A i \in (k + 1)..Len(s) : s[i] # x

(* The dict _gather_all returns maps a SKU to its list of links and holds  *)
(* nothing else: an entry has no status to read                            *)
report_status(k) ==
    IF "status" \in DOMAIN report THEN report.status[k] ELSE "None"

(* C1: at every moment of a run the number of lookup tasks inside a _fetch *)
(* call is at most CONCURRENT_QUERIES                                      *)
C1_ConcurrencyCap == Cardinality(InFlight) <= CONCURRENT_QUERIES

(* the cap is reached while another lookup queues for a permit *)
C1_Witness ==
    /\ Cardinality(InFlight) = CONCURRENT_QUERIES
    /\ \E t \in Tasks : tstate[t] = "waiting"

(* C2: for a positive quota, the accepted links of every resolver, while   *)
(* it runs and in what it returns and in the report, never number more     *)
(* than MAX_LINKS_PER_SKU                                                  *)
C2_QuotaBound ==
    /\ \A r \in Resolvers : Len(found[r]) <= MAX_LINKS_PER_SKU
    /\ \A k \in 1..Len(res) : Len(res[k].links) <= MAX_LINKS_PER_SKU
    /\ \A k \in 1..Len(report.vals) : Len(report.vals[k]) <= MAX_LINKS_PER_SKU

(* a resolver returned a full quota although more of its lookups found a link *)
C2_Witness ==
    \E r \in Resolvers :
        /\ rstate[r] = "done"
        /\ Len(found[r]) = MAX_LINKS_PER_SKU
        /\ Cardinality({t \in TasksOf(r) : outcome[t] = "Found"}) > MAX_LINKS_PER_SKU

C5_Completeness ==
    (pc = "done" /\ Distinct(skus)) =>
        /\ Len(report.keys) = Len(skus)
        /\ Len(report.vals) = Len(skus)
        /\ Range(report.keys) = Range(skus)
        /\ Distinct(report.keys)

(* a finished run over distinct identifiers, some with links and some without *)
C5_Witness ==
    /\ pc = "done" /\ Distinct(skus) /\ Len(skus) >= 2
    /\ \E r \in Resolvers : found[r] = <<>>
    /\ \E r \in Resolvers : found[r] # <<>>

(* C6: the report lists the identifiers in input order (a repeated         *)
(* identifier at its first position) and pairs every identifier with what  *)
(* its own resolver returned (for a repeated one, its last resolver)       *)
C6_InputOrder ==
    pc = "done" =>
        /\ Range(report.keys) = Range(skus)
        /\ Distinct(report.keys)
        /\ Len(report.vals) = Len(report.keys)
        /\ \A a, b \in 1..Len(report.keys) :
              a < b => FirstPos(skus, report.keys[a]) < FirstPos(skus, report.keys[b])
        /\ \A k \in 1..Len(report.keys) :
              report.vals[k] = found[LastPos(skus, report.keys[k])]
        /\ Distinct(skus) => report.keys = skus

(* the resolvers finished in the reverse of the input order, with          *)
(* different results                                                       *)
C6_Witness ==
    /\ pc = "done" /\ Distinct(skus) /\ Len(res) >= 2
    /\ res[1].i > res[2].i
    /\ found[1] # found[2]

(* C7: once a resolver's accepted links number the quota, every task of it *)
(* that has not finished has its cancellation requested, and the resolver  *)
(* awaits no further completion and appends no further link                *)
C7_QuotaStops ==
    [][\A r \in Resolvers :
          Len(found[r]) = MAX_LINKS_PER_SKU =>
              /\ \A t \in TasksOf(r) : Pending(t) => must_cancel[t]
              /\ found'[r] = found[r]
              /\ consumed'[r] = consumed[r]]_vars

(* a resolver stopped at the quota with one Found completion left in its   *)
(* queue and another task cancelled                                        *)
C7_Witness ==
    \E r \in Resolvers :
        /\ rstate[r] = "done" /\ Len(found[r]) = MAX_LINKS_PER_SKU
        /\ \E k \in (consumed[r] + 1)..Len(queue[r]) : outcome[<<r, queue[r][k]>>] = "Found"
        /\ \E t \in TasksOf(r) : tstate[t] = "cancelled"

(* C8: the accepted links of a resolver are the links of the completions   *)
(* it has awaited, in the order in which the tasks completed               *)
C8_CompletionOrder ==
    \A r \in Resolvers :
        /\ consumed[r] <= Len(queue[r])
        /\ found[r] = links_of(r, SubSeq(queue[r], 1, consumed[r]))

(* the link of a later source precedes the link of an earlier source *)
C8_Witness ==
    \E r \in Resolvers :
        /\ Len(found[r]) = 2
        /\ found[r][1].domain = ALLOWED_DOMAINS[2]
        /\ found[r][2].domain = ALLOWED_DOMAINS[1]

AllFailed == Tasks # {} /\ \A t \in Tasks : outcome[t] = "Failed"
EntryOf(sku) == FirstPos(report.keys, sku)

NoSources == ALLOWED_DOMAINS = <<>>

InvalidConfig == NoSources \/ MAX_LINKS_PER_SKU <= 0

(* C11, as the spec states it: under an empty allow-list or a non-positive *)
(* quota the run is rejected: no lookup task is started, _fetch is never   *)
(* called and no report is returned                                        *)
C11_InvalidConfigRejected ==
    InvalidConfig =>
        /\ pc # "done"
        /\ \A t \in Tasks : tstate[t] = "none"
        /\ \A k \in AllKeys : fetchCalls[k] = 0

(* C11, amended: the configuration is not validated.  A run with a         *)
(* non-positive quota starts and finishes like any other: the quota test   *)
(* never fires, no task is cancelled, every resolver awaits all its        *)
(* lookups and returns the links of all that found one.  A run with an     *)
(* empty allow-list returns an empty list for every identifier.            *)
C11_ConfigUnchecked ==
    /\ pc # "crashed"
    /\ MAX_LINKS_PER_SKU <= 0 =>
          /\ \A t \in Tasks : ~must_cancel[t] /\ tstate[t] # "cancelled"
          /\ \A r \in Resolvers :
                /\ found[r] = links_of(r, SubSeq(queue[r], 1, consumed[r]))
                /\ rstate[r] = "done" => consumed[r] = Len(ALLOWED_DOMAINS)
    /\ (NoSources /\ pc = "done") =>
          \A k \in 1..Len(report.vals) : report.vals[k] = <<>>
    /\ (InvalidConfig /\ pc = "done") => Range(report.keys) = Range(skus)

(* a finished run under a non-positive quota that returned links *)
C11_Witness ==
    /\ MAX_LINKS_PER_SKU <= 0 /\ pc = "done"
    /\ \E r \in Resolvers : Len(found[r]) >= 2
    /\ \A k \in AllKeys : fetchCalls[k] <= 1


Settled == \A t \in Tasks : tstate[t] \in {"none", "done", "raised", "cancelled"}
Started(r) == rstate[r] # "new"

(* C12: after a process-level interrupt no new lookup is issued, a lookup  *)
(* in flight is left to finish, and once the lookups have settled a report *)
(* holds an entry for every identifier whose resolution had started, with  *)
(* the links accepted so far                                               *)
C12_InterruptKeepsProgress ==
    pc = "interrupted" =>
        /\ \A t \in Tasks : tstate[t] = "fetching" => ~must_cancel[t]
        /\ Settled =>
              \A r \in Resolvers :
                  Started(r) =>
                      /\ skus[r] \in Range(report.keys)
                      /\ \E k \in 1..Len(report.keys) :
                            report.keys[k] = skus[r] /\ report.vals[k] = found[r]


(* C13, as the spec states it: cancellation is cooperative, a fetch in     *)
(* flight is never interrupted: it runs to completion                      *)
C13_FetchRunsToCompletion ==
    [][\A t \in Tasks :
          tstate[t] = "fetching" => tstate'[t] \in {"fetching", "done", "raised"}]_vars

(* C13, amended: a cancel() requested while the fetch is in flight         *)
(* interrupts it.  From the request until CancelledError is delivered the  *)
(* task stays suspended and gets no answer; it then ends cancelled, with   *)
(* no link and no outcome, no answer is taken from a cancelled task, and  *)
(* the progress bar counts only the tasks that got their answer            *)
C13_CancelInterruptsFetch ==
    /\ domain_bar.n = Cardinality({t \in Tasks : HasOutcome(t)})
    /\ \A t \in Tasks :
           /\ must_cancel[t] =>
                 /\ tstate[t] \in {"waiting", "granted", "fetching"}
                 /\ outcome[t] = "None" /\ tlink[t] = None
           /\ tstate[t] = "cancelled" =>
                 /\ outcome[t] = "None" /\ tlink[t] = None
                 /\ \A k \in 1..Len(found[t[1]]) :
                       found[t[1]][k].domain # ALLOWED_DOMAINS[t[2]]

(* a lookup was cancelled in the middle of its only fetch, and its permit  *)
(* is back                                                                 *)
C13_Witness ==
    \E t \in Tasks :
        /\ tstate[t] = "cancelled"
        /\ fetchCalls[Key(t)] = 1
        /\ \A u \in Tasks \ {t} : Key(u) # Key(t)
        /\ sem.value = CONCURRENT_QUERIES
        /\ rstate[t[1]] = "done"


AtFetch(ts) == {t \in Tasks : ts[t] \in {"granted", "fetching"}}

(* C14: a lookup task has a permit only around its _fetch call: the       *)
(* permits that are out are those of the tasks at their fetch (calling     *)
(* _fetch, or handed a permit and about to call it); a task that extracts, *)
(* has ended, or whose resolver awaits other tasks holds none              *)
C14_PermitOnlyAroundFetch ==
    /\ CONCURRENT_QUERIES - sem.value = Cardinality(AtFetch(tstate))
    /\ \A t \in Tasks :
          (HasOutcome(t) \/ Ended(t)) => t \notin AtFetch(tstate)

(* a lookup has returned and its resolver still awaits a second lookup,    *)
(* which is the only holder of a permit                                    *)
C14_Witness ==
    \E t, u \in Tasks :
        /\ t[1] = u[1] /\ rstate[t[1]] = "running"
        /\ tstate[t] = "done" /\ tstate[u] = "fetching"
        /\ AtFetch(tstate) = {u}
        /\ sem.value = CONCURRENT_QUERIES - 1


C15_SequentialReturned == flf_pc = "returned" /\ Len(collected) = 2


InScenario == skus = <<"ABC123", "XYZ999", "ABC123">>
ScenarioCalls ==
    fetchCalls[<<"ABC123", "site-a.com">>] + fetchCalls[<<"ABC123", "site-b.com">>]
ScenarioResults ==
    /\ \A r \in Resolvers :
          rstate[r] = "done" =>
              IF skus[r] = "ABC123"
              THEN Len(found[r]) = 1
              ELSE found[r] = <<Url("site-b.com", "XYZ999")>>
    /\ pc = "done" =>
          /\ report.keys = <<"ABC123", "XYZ999">>
          /\ Len(report.vals[1]) = 1
          /\ report.vals[2] = <<Url("site-b.com", "XYZ999")>>

AllOutcomes(r, o) == Sources # {} /\ \A t \in TasksOf(r) : outcome[t] = o
ExpectedStatus(r) ==
    IF Len(found[r]) = MAX_LINKS_PER_SKU THEN "QuotaReached"
    ELSE IF AllOutcomes(r, "Failed") THEN "Errored"
    ELSE "Exhausted"

EntersFetch(t) == tstate[t] # "fetching" /\ tstate'[t] = "fetching"

C20_ListOrder ==
    [][/\ \A r \in Resolvers : \A j1, j2 \in Sources :
             (j1 < j2 /\ EntersFetch(<<r, j2>>))
                 => tstate[<<r, j1>>] \in {"fetching", "done", "raised"}
       /\ searched' # searched =>
             /\ Len(searched) < Len(ALLOWED_DOMAINS)
             /\ searched' = Append(searched, ALLOWED_DOMAINS[Len(searched) + 1])]_vars

(* two lookups of one resolver queued on the semaphore, and the earlier    *)
(* source's lookup is in its fetch while the later one still waits         *)
C20_Witness ==
    \E r \in Resolvers : \E j1, j2 \in Sources :
        /\ j1 < j2
        /\ Len(sem.waiters) >= 1 /\ sem.waiters[Len(sem.waiters)] = <<r, j2>>
        /\ tstate[<<r, j2>>] \in {"waiting", "granted"}
        /\ tstate[<<r, j1>>] = "fetching"
        /\ fetchCalls[Key(<<r, j1>>)] >= 1
        /\ \E u \in Tasks : u[1] # r /\ Ended(u)

----------------------------------------------------------------------------
(* C21: in the captcha hand-off, once main2.py has exited with return code *)
(* 0, captcha_solution.json exists and holds the solution that run of      *)
(* main2.py produced, and solve_captcha_with_brightdata returns True.      *)
(* main2.py never writes the file, so this does not hold.                  *)
C21_HandoffDelivers ==
    (h_pc = "returned" /\ returncode = 0)
        => (captcha_solution = "main2" /\ solved = "True")

----------------------------------------------------------------------------
(* the lines sku_search.main is claimed to write for the SKU at position i: *)
(* one per matching link, or one NOT_FOUND line, or one ERROR line          *)
ClaimedLines(i) ==
    LET sku == ss_skus[i]
        matches == links_for(ss_calls[i])
    IN IF ss_calls[i].kind = "raise" THEN write_lines(sku, <<"ERROR">>)
       ELSE IF matches # <<>> THEN write_links(sku, matches)
       ELSE write_lines(sku, <<"NOT_FOUND">>)

RECURSIVE ClaimedFile(_)
ClaimedFile(n) == IF n = 0 THEN <<>> ELSE ClaimedFile(n - 1) \o ClaimedLines(n)

(* C22: in sku_search.main every input SKU produces at least one output    *)
(* line, in input order: one line per matching link, or a single NOT_FOUND *)
(* line, or a single ERROR line when links_for raises; an error on one SKU *)
(* does not keep the remaining SKUs from being processed.  An exception    *)
(* whose text holds a newline is written as several lines, so this does    *)
(* not hold.                                                               *)
C22_OneBlockPerSku ==
    /\ ss_pc \in {"loop", "done"} => out = ClaimedFile(Len(ss_calls))
    /\ ss_pc = "done" => Len(ss_calls) = Len(ss_skus)

(* what does hold: every line that carries a SKU is in input order, every  *)
(* SKU has at least one, and every SKU is processed whatever the earlier   *)
(* ones did                                                                *)
C22_KeyedLinesInOrder ==
    LET keyed == SelectSeq(out, LAMBDA l : l.key # "")
    IN /\ ss_pc \in {"loop", "done"} => keyed = ClaimedFile(Len(ss_calls))
       /\ ss_pc = "done" => Len(ss_calls) = Len(ss_skus)

----------------------------------------------------------------------------
(* _gather_all has returned with every resolver finished, no lookup task   *)
(* left pending and nobody queued on the semaphore                         *)
RunFinished ==
    /\ pc = "done"
    /\ \A r \in Resolvers : rstate[r] = "done"
    /\ \A t \in Tasks : ~Pending(t)
    /\ sem.waiters = <<>>

(* C23: when every fetch answers in the end and scheduling is fair, a run  *)
(* of _gather_all without an interrupt terminates with every resolver      *)
(* finished: no lookup task waits for ever for a permit and no resolver    *)
(* waits for ever on its tasks, also with more lookups than permits        *)
C23_Terminates == <>RunFinished

(* a run with more lookups than permits, so that one of them had to queue, *)
(* has finished with an outcome for every lookup                           *)
C23_Witness ==
    /\ RunFinished
    /\ Cardinality(Tasks) > CONCURRENT_QUERIES
    /\ \A t \in Tasks : HasOutcome(t)

----------------------------------------------------------------------------
(* the permit of a task that leaves the gate goes back to the counter or   *)
(* to a waiter                                                             *)
PermitPassedOn ==
    \/ sem'.value = sem.value + 1
    \/ /\ sem'.value = sem.value
       /\ \E w \in Tasks : tstate[w] = "waiting" /\ tstate'[w] = "granted"

(* C24: permits are conserved under cancellation.  A lookup task cancelled *)
(* while it waits for a permit never acquires one and never calls _fetch,  *)
(* a task cancelled while it holds a permit gives it back, in every state  *)
(* the free permits and the tasks inside the gate add up to                *)
(* CONCURRENT_QUERIES, and once all tasks have ended every permit is free  *)
C24_PermitsConserved ==
    /\ [](/\ sem.value + Cardinality(AtFetch(tstate)) = CONCURRENT_QUERIES
          /\ (\A t \in Tasks : ~Pending(t)) => sem.value = CONCURRENT_QUERIES
          /\ \A k \in 1..Len(sem.waiters) :
                tstate[sem.waiters[k]] \in {"waiting", "granted"})
    /\ [][\A t \in Tasks :
            /\ waiter_cancelled(t) =>
                  /\ tstate'[t] \in {"waiting", "cancelled"}
                  /\ tstate'[t] = "cancelled" =>
                        sem'.value = sem.value /\ fetchCalls' = fetchCalls
            /\ tstate[t] = "cancelled" => tstate'[t] = "cancelled"
            /\ (t \in AtFetch(tstate) /\ tstate'[t] = "cancelled") =>
                  PermitPassedOn]_vars

(* of one resolver's four lookups, one was cancelled while it waited and   *)
(* never called _fetch, two were cancelled while they held a permit, and   *)
(* now that all have ended every permit is free                            *)
C24_Witness ==
    /\ \A t \in Tasks : ~Pending(t) /\ tstate[t] # "none"
    /\ sem.value = CONCURRENT_QUERIES
    /\ \E t, u \in Tasks :
          /\ t[1] = u[1] /\ t # u
          /\ tstate[t] = "cancelled" /\ fetchCalls[Key(t)] = 0
          /\ tstate[u] = "cancelled" /\ fetchCalls[Key(u)] = 1
          /\ \A v \in Tasks \ {u} : Key(v) # Key(u)

----------------------------------------------------------------------------
(* the positions of an identifier in the input list *)
Occurrences(sku) == {r \in Resolvers : skus[r] = sku}

(* C25: when an identifier occurs more than once in the input list,        *)
(* _gather_all runs one resolver per occurrence, and the returned mapping  *)
(* holds a single entry for it, at the position of its first occurrence    *)
(* and with the links of its last occurrence's resolver; the mapping has   *)
(* as many entries as there are distinct identifiers                       *)
C25_RepeatedIdentifier ==
    /\ Len(rstate) = Len(skus) /\ Len(found) = Len(skus)
    /\ pc = "done" =>
          /\ \A r \in Resolvers : rstate[r] = "done"
          /\ Len(res) = Len(skus)
          /\ Len(report.keys) = Cardinality(Range(skus))
          /\ Len(report.vals) = Len(report.keys)
          /\ \A sku \in Range(skus) :
                LET first == CHOOSE r \in Occurrences(sku) :
                                 \A q \in Occurrences(sku) : r <= q
                    last == CHOOSE r \in Occurrences(sku) :
                                 \A q \in Occurrences(sku) : q <= r
                    before == {skus[q] : q \in 1..(first - 1)}
                    at == Cardinality(before) + 1
                IN /\ report.keys[at] = sku
                   /\ report.vals[at] = found[last]
                   /\ \A k \in 1..Len(report.keys) :
                         report.keys[k] = sku => k = at

(* ABC123 is first and last in the list with another identifier between,   *)
(* its two resolvers returned different links, and the report is out       *)
C25_Witness ==
    /\ pc = "done"
    /\ Len(skus) = 3 /\ skus[1] = skus[3] /\ skus[1] # skus[2]
    /\ found[1] # <<>> /\ found[3] # found[1]
    /\ report.keys = <<skus[1], skus[2]>>

----------------------------------------------------------------------------
(* the lookup tasks that ran _search_domain to its return *)
RanToEnd == {t \in Tasks : tstate[t] = "done"}

(* C26: the lookup progress counter is ticked exactly once by each lookup  *)
(* task that runs to its end, whatever its outcome, and never by a task    *)
(* cancelled before that point: in every state it equals the number of     *)
(* lookups that ran to their end, and it never exceeds its declared total  *)
(* of (number of identifiers) x (number of sources)                        *)
C26_BarCountsCompleted ==
    /\ domain_bar.n = Cardinality(RanToEnd)
    /\ domain_bar.total = Len(skus) * Len(ALLOWED_DOMAINS)
    /\ domain_bar.n <= domain_bar.total
    /\ \A t \in Tasks :
          /\ t \in RanToEnd <=> outcome[t] \in {"Found", "NotFound", "Failed"}
          /\ tstate[t] = "cancelled" => t \notin RanToEnd

(* the run is over: one lookup found nothing, one found a link, one was    *)
(* cancelled, and the counter stands at two of three                       *)
C26_Witness ==
    /\ pc = "done"
    /\ \E t, u, v \in Tasks :
          /\ outcome[t] \in {"NotFound", "Failed"} /\ outcome[u] = "Found"
          /\ tstate[v] = "cancelled"
    /\ domain_bar.total = 3 /\ domain_bar.n = 2

----------------------------------------------------------------------------
(* the lookups of resolver r that returned a link *)
FoundBy(r) == {t \in TasksOf(r) : outcome[t] = "Found"}

(* C27: a resolver cancels its tasks only at the moment its accepted count *)
(* equals the quota exactly; a resolver that returns fewer links than the  *)
(* quota has consumed the outcome of every one of its lookup tasks, and    *)
(* its result holds exactly the links of its lookups that returned Found   *)
C27_CancelOnlyAtQuota ==
    \A r \in Resolvers :
        /\ (\E t \in TasksOf(r) : must_cancel[t] \/ tstate[t] = "cancelled") =>
              (rstate[r] = "done" /\ Len(found[r]) = MAX_LINKS_PER_SKU)
        /\ (rstate[r] = "done" /\ Len(found[r]) < MAX_LINKS_PER_SKU) =>
              /\ consumed[r] = Len(ALLOWED_DOMAINS)
              /\ \A t \in TasksOf(r) : tstate[t] = "done"
              /\ Range(found[r]) = {tlink[t] : t \in FoundBy(r)}
              /\ Len(found[r]) = Cardinality(FoundBy(r))

(* under a quota of two a resolver returned the one link its lookups       *)
(* found, after a lookup that found none                                   *)
C27_Witness ==
    \E r \in Resolvers :
        /\ rstate[r] = "done" /\ MAX_LINKS_PER_SKU = 2 /\ Len(found[r]) = 1
        /\ \E t \in TasksOf(r) : outcome[t] \in {"NotFound", "Failed"}
        /\ \A t \in TasksOf(r) : ~must_cancel[t] /\ tstate[t] = "done"

----------------------------------------------------------------------------
(* domain_to_skus as it was read from the file, before any deletion *)
RECURSIVE ReadLinks(_)
ReadLinks(k) ==
    IF k = 0 THEN [all |-> {}, d2s |-> <<>>]
    ELSE read_line(ReadLinks(k - 1).all, ReadLinks(k - 1).d2s, g_lines[k])
ReadDomains == ReadLinks(Len(g_lines)).d2s
SkusOf(dom) ==
    UNION {ReadDomains[i].skus : i \in {j \in 1..Len(ReadDomains) :
                                            ReadDomains[j].dom = dom}}
CoveredBy(n) == UNION {SkusOf(selected[k]) : k \in 1..n}

(* C28: the greedy cover loop of greedy_finder.main terminates for every   *)
(* input, never selects a domain twice, selects a domain only if it covers *)
(* a SKU not yet covered, keeps covered a subset of all_skus, and on exit  *)
(* either covered equals all_skus or no remaining non-excluded domain      *)
(* covers an uncovered SKU                                                 *)
C28_GreedyCover ==
    /\ [](/\ Distinct(selected)
          /\ covered \subseteq all_skus
          /\ covered = CoveredBy(Len(selected))
          /\ \A k \in 1..Len(selected) :
                /\ selected[k] \notin EXCLUDE
                /\ \E i \in 1..Len(ReadDomains) : ReadDomains[i].dom = selected[k]
                /\ SkusOf(selected[k]) \ CoveredBy(k - 1) # {}
          /\ \A i \in 1..Len(domain_to_skus) :
                /\ domain_to_skus[i].dom \notin EXCLUDE
                /\ domain_to_skus[i].dom \notin Range(selected)
          /\ g_pc = "report" =>
                \/ covered = all_skus
                \/ \A i \in 1..Len(domain_to_skus) :
                      domain_to_skus[i].skus \ covered = {})
    /\ (g_pc = "read" ~> g_pc = "report")

(* the loop selected a domain and stopped with a SKU left uncovered, in a  *)
(* file that also holds a link of an excluded domain                       *)
C28_Witness ==
    /\ g_pc = "report"
    /\ Len(selected) >= 1
    /\ covered # all_skus
    /\ \E i \in 1..Len(g_lines) :
          g_lines[i].http /\ normalize_netloc(g_lines[i].netloc) \in EXCLUDE

(* C29: build_mapping groups the lines by upper-cased SKU: the keys are     *)
(* the upper-cased, stripped SKUs of the three-field lines with a URL, each *)
(* once, in the order of their first such line; a key's list holds its      *)
(* stripped URLs, each once, in the order of their first line; and          *)
(* build_mapping of the lines rebuilt from a mapping is that mapping.       *)
HasUrl(i) ==
    /\ im_rows[i].parts = 3
    /\ im_rows[i].url.txt # ""
SkuKey(i) == Field(im_rows[i].sku.txt, FALSE, FALSE)
UrlOf(i) == Field(im_rows[i].url.txt, im_rows[i].url.lower, FALSE)
FirstRowOf(key) ==
    CHOOSE i \in 1..Len(im_rows) :
        /\ HasUrl(i) /\ SkuKey(i) = key
        /\ \A j \in 1..(i - 1) : ~(HasUrl(j) /\ SkuKey(j) = key)
FirstRowWith(key, url) ==
    CHOOSE i \in 1..Len(im_rows) :
        /\ HasUrl(i) /\ SkuKey(i) = key /\ UrlOf(i) = url
        /\ \A j \in 1..(i - 1) :
              ~(HasUrl(j) /\ SkuKey(j) = key /\ UrlOf(j) = url)
C29_BuildMapping ==
    /\ Len(mapping.vals) = Len(mapping.keys)
    /\ Range(mapping.keys) = {SkuKey(i) : i \in {j \in 1..Len(im_rows) : HasUrl(j)}}
    /\ \A p, q \in 1..Len(mapping.keys) :
          p < q => FirstRowOf(mapping.keys[p]) < FirstRowOf(mapping.keys[q])
    /\ \A p \in 1..Len(mapping.keys) :
          /\ Range(mapping.vals[p])
                = {UrlOf(i) : i \in {j \in 1..Len(im_rows) :
                                        HasUrl(j) /\ SkuKey(j) = mapping.keys[p]}}
          /\ \A a, b \in 1..Len(mapping.vals[p]) :
                a < b => FirstRowWith(mapping.keys[p], mapping.vals[p][a])
                           < FirstRowWith(mapping.keys[p], mapping.vals[p][b])
    /\ im_pc = "rebuilt" =>
          /\ remapped.keys = mapping.keys
          /\ remapped.vals = mapping.vals

(* A rebuilt mapping of two keys where ABC123 was written in both cases    *)
(* and one of its URLs came twice                                           *)
C29_Witness ==
    /\ im_pc = "rebuilt"
    /\ Len(mapping.keys) = 2
    /\ \E i, j \in 1..Len(im_rows) :
          /\ i < j /\ HasUrl(i) /\ HasUrl(j)
          /\ SkuKey(i) = SkuKey(j) /\ im_rows[i].sku # im_rows[j].sku
          /\ UrlOf(i) = UrlOf(j)
====
